---- MODULE Spec2Model ----
\* The upload / list / delete workflow of the text-to-handwriting application:
\* the two API route handlers (pages/api/images/index.js and
\* pages/api/images/[...id].js), the Cloudinary adapter (lib/cloudinary.js) and
\* the remote store they talk to.
\*
\* Strings are sequences of symbols.  A symbol is either the separator "/" or a
\* chunk of characters that contains no "/" (the folder word
\* "text-to-handwriting", a resource name).  Splitting, joining and prefix
\* matching are computed on these sequences.
EXTENDS Integers, Sequences, FiniteSets, TLC

\* ---------------------------------------------------------------- bounds

\* Requests served in one behaviour.
MaxRequests == 3
\* Requests the host runtime serves concurrently.
MaxInFlight == 2

Slots == 1..MaxInFlight

\* ------------------------------------------------------------- strings

RECURSIVE Join(_, _)
\* Array.prototype.join(sep) on an array of strings.
Join(parts, sep) ==
    IF parts = <<>> THEN <<>>
    ELSE IF Len(parts) = 1 THEN parts[1]
    ELSE parts[1] \o <<sep>> \o Join(Tail(parts), sep)

RECURSIVE Split(_, _)
\* The path components of a string: the pieces between occurrences of sep.
Split(s, sep) ==
    IF \A i \in 1..Len(s) : s[i] # sep THEN <<s>>
    ELSE LET i == CHOOSE k \in 1..Len(s) :
                      s[k] = sep /\ \A j \in 1..(k - 1) : s[j] # sep
         IN  <<SubSeq(s, 1, i - 1)>> \o Split(SubSeq(s, i + 1, Len(s)), sep)

IsPrefix(p, s) ==
    /\ Len(p) <= Len(s)
    /\ SubSeq(s, 1, Len(p)) = p

Range(f) == {f[i] : i \in DOMAIN f}

\* --------------------------------------------------- lib/cloudinary.js

CLOUDINARY_FOLDER_NAME == <<"text-to-handwriting", "/">>

\* folder: null of handleCloudinaryUpload.
NoFolder == <<>>

\* Variant: the list call made without a prefix.
handleGetCloudinaryUploadsNoPrefix ==
    [op |-> "list", prefix |-> <<>>]

\* The call handleGetCloudinaryUploads makes: api.resources with the prefix.
handleGetCloudinaryUploads ==
    [op |-> "list", prefix |-> CLOUDINARY_FOLDER_NAME]

\* Variant: the upload made without a folder.
handleCloudinaryUploadNoFolder(resource) ==
    [op |-> "upload", file |-> resource.file, folder |-> NoFolder]

\* The call handleCloudinaryUpload makes: uploader.upload(file, {folder}).
handleCloudinaryUpload(resource) ==
    [op |-> "upload", file |-> resource.file,
     folder |-> IF resource.folder THEN CLOUDINARY_FOLDER_NAME ELSE NoFolder]

\* The call handleCloudinaryDelete makes: api.delete_resources(ids).
handleCloudinaryDelete(ids) ==
    [op |-> "delete", ids |-> ids]

\* ------------------------------------------------------ the remote store

\* Names the store gives to uploads made without a public_id, in the order
\* it hands them out; none is the name of a resource the store starts with.
UploadNames == <<"u1", "u2", "u3", "u4", "u5", "u6">>

\* Resources the store may hold before the application runs: one in a
\* sub-folder of the application's folder, one in another folder.
InitialIds ==
    { <<"text-to-handwriting", "/", "s", "/", "a">>,
      <<"o", "/", "a">> }

\* api.resources({prefix}): the resources whose public id starts with prefix.
ApiResources(st, prefix) == {r \in st : IsPrefix(prefix, r)}

\* uploader.upload with a folder and no public_id: the public id is the folder
\* (without its trailing separator), a separator and a name the store picks.
UploadedId(folder, name) ==
    IF folder = NoFolder THEN <<name>>
    ELSE (IF folder[Len(folder)] = "/"
          THEN SubSeq(folder, 1, Len(folder) - 1) ELSE folder)
         \o <<"/", name>>

\* Variant: every resource is deleted, whatever ids names.
ApiDeleteResourcesAll(st, ids) == {}

\* api.delete_resources(ids): the store without the resources named.
ApiDeleteResources(st, ids) == st \ Range(ids)

\* ----------------------------------------------------------- requests

Methods == {"GET", "POST", "DELETE"}

\* COLORS of handwritten.js/src/constants, the options of the Home form.
COLORS == {"black", "red", "blue"}

NoBody == [text |-> <<>>, color |-> "none", ruled |-> FALSE]

\* JSON bodies of a POST: a colour of COLORS and a colour outside it.
Bodies ==
    [text : {<<"hi">>}, color : {"black", "green"}, ruled : {TRUE}]

\* req.query.id as Next.js hands it over: absent, one string, or the array of
\* path components of a catch-all route (never an empty array).
Absent == [kind |-> "absent", str |-> <<>>, arr |-> <<>>]
StringId(s) == [kind |-> "string", str |-> s, arr |-> <<>>]
ArrayId(a) == [kind |-> "array", str |-> <<>>, arr |-> a]

\* Variant: only an undefined id counts as missing.
FalsyUndefinedOnly(q) == q.kind = "absent"

\* !id of JavaScript: undefined and the empty string are falsy, arrays truthy.
Falsy(q) == q.kind = "absent" \/ (q.kind = "string" /\ q.str = <<>>)

\* A slot that serves nothing.  Of a request: id is the handler's variable,
\* calls the calls it made and thrown the error an awaited call threw; target
\* (the identifier the request names), fromPage, seenCreated and seenDeleted
\* (createdOk and deletedOk when it arrived) are history.
Idle ==
    [pc |-> "idle", route |-> "none", method |-> "none", body |-> NoBody,
     query |-> Absent, id |-> <<>>, fromPage |-> FALSE, target |-> <<>>,
     calls |-> <<>>, thrown |-> "none", resp |-> <<>>,
     seenCreated |-> {}, seenDeleted |-> {}]

\* res.status(status).json(body): the response is sent and the handler returns.
Respond(r, status, body) ==
    [r EXCEPT !.pc = "done",
              !.resp = Append(@, [status |-> status, body |-> body])]

\* The awaited call rejects: the error is thrown inside the handler's try.
Throw(r, error) == [r EXCEPT !.thrown = error]

\* A call to a collaborator is issued and the handler awaits it.
Await(r, pc, call) ==
    [r EXCEPT !.pc = pc, !.calls = Append(@, call)]

VARIABLES
    store,      \* public ids of the resources in the remote store
    req,        \* per slot: the request being served, its calls and response
    issued,     \* requests received so far
    createdOk,  \* history: ids returned by a create answered 201
    removed,    \* history: ids a successful delete_resources call was given
    deletedOk,  \* history: listed ids whose DELETE request was answered 200
    listedIds,  \* history: ids that appeared in a list answered 200
    ui,         \* React state of the Home and Images pages in the browser
    run,        \* per slot: the page function awaiting the slot's response
    failures \* history: a fetch of a page threw or was answered not ok

pageVars == <<ui, run, failures>>

vars == <<store, req, issued, createdOk, removed, deletedOk, listedIds,
          ui, run, failures>>

\* No page function awaits a response.
NoRun == [fn |-> "none", by |-> "none", n |-> 0]

Last(s) == s[Len(s)]

\* The host runtime takes a new request when fewer than MaxInFlight are being
\* served; the request is kept, with its response, in the first slot that
\* serves none.
Vacant(s) == req[s].pc \in {"idle", "done"} /\ run[s] = NoRun

Free(s) ==
    /\ Vacant(s)
    /\ \A t \in Slots : t < s => ~Vacant(t)

\* ------------------------------------------- pages/api/images/index.js

\* The call handwritten(text, {ruled, outputType, inkColor}).
Handwritten(text, ruled, color) ==
    [op |-> "render", text |-> text, ruled |-> ruled,
     outputType |-> "png/b64", inkColor |-> color]

\* Variant: the upload is started without rendering first.
handlePostRequestUploadFirst(r) ==
    Await(r, "upload",
          handleCloudinaryUpload([file |-> r.body.text, folder |-> TRUE]))

\* handlePostRequest up to its first await: the body is destructured and the
\* renderer called.
handlePostRequest(r) ==
    Await(r, "render", Handwritten(r.body.text, r.body.ruled, r.body.color))

\* handleGetRequest up to its await.
handleGetRequest(r) == Await(r, "list", handleGetCloudinaryUploads)

\* Variant: a caught error answered as a server error.
IndexCatch500(r) ==
    Respond(r, 500, [message |-> "Error", error |-> r.thrown])

\* The catch blocks of the GET and POST cases of index.js.
IndexCatch(r) ==
    Respond(r, 400, [message |-> "Error", error |-> r.thrown])

\* Variant: a create answered 200 instead of 201.
IndexPostOk200(r, result) ==
    Respond(r, 200, [message |-> "Success", result |-> result])

\* res.status(200).json({message: "Success", result}) of the GET case.
IndexGetOk(r, result) ==
    Respond(r, 200, [message |-> "Success", result |-> result])

\* res.status(201).json({message: "Success", result}) of the POST case.
IndexPostOk(r, result) ==
    Respond(r, 201, [message |-> "Success", result |-> result])

\* handler of index.js: the switch on req.method.
IndexHandler(r) ==
    CASE r.method = "GET" -> handleGetRequest(r)
      [] r.method = "POST" -> handlePostRequest(r)
      [] OTHER -> Respond(r, 405, [message |-> "Method not allowed"])

\* A request to /api/images arrives and the handler runs to its first await
\* or to its response.
IndexRequest(s) ==
    /\ Free(s)
    /\ issued < MaxRequests
    /\ \E method \in Methods :
       \E body \in (IF method = "POST" THEN Bodies ELSE {NoBody}) :
          req' = [req EXCEPT ![s] =
                    IndexHandler([Idle EXCEPT !.route = "index",
                                              !.method = method,
                                              !.body = body,
                                              !.seenCreated = createdOk,
                                              !.seenDeleted = deletedOk])]
    /\ issued' = issued + 1
    /\ UNCHANGED <<store, createdOk, removed, deletedOk, listedIds, pageVars>>

\* The store answers the list call of a GET: the handler sends 200 with the
\* result, or 400 with the error the call threw.
ListReturns(s) ==
    /\ req[s].pc = "list"
    /\ \/ LET result == [resources |->
                            ApiResources(store, Last(req[s].calls).prefix)]
          IN  /\ req' = [req EXCEPT ![s] = IndexGetOk(@, result)]
              /\ listedIds' = listedIds \cup result.resources
       \/ /\ req' = [req EXCEPT ![s] =
                    IndexCatch(Throw(@, "RemoteUnavailable"))]
          /\ UNCHANGED listedIds
    /\ UNCHANGED <<store, issued, createdOk, removed, deletedOk, pageVars>>

\* The renderer answers: on success handlePostRequest takes the first image
\* and calls handleCloudinaryUpload({file, folder: true}); on failure the
\* handler sends 400.
RenderReturns(s) ==
    /\ req[s].pc = "render"
    /\ \/ req' = [req EXCEPT ![s] =
                    Await(@, "upload",
                          handleCloudinaryUpload([file |-> "base64Image",
                                                  folder |-> TRUE]))]
       \/ req' = [req EXCEPT ![s] = IndexCatch(Throw(@, "RenderError"))]
    /\ UNCHANGED <<store, issued, createdOk, removed, deletedOk, listedIds,
                   pageVars>>

\* The store answers the upload: the resource is stored and the handler sends
\* 201 with the upload response, or the call throws and the handler sends 400.
UploadReturns(s) ==
    /\ req[s].pc = "upload"
    /\ \/ LET id == UploadedId(Last(req[s].calls).folder,
                               UploadNames[Cardinality(createdOk) + 1])
          IN  /\ store' = store \cup {id}
              /\ req' = [req EXCEPT ![s] =
                    IndexPostOk(@, [public_id |-> id])]
              /\ createdOk' = createdOk \cup {id}
       \/ /\ req' = [req EXCEPT ![s] =
                    IndexCatch(Throw(@, "RemoteUnavailable"))]
          /\ UNCHANGED <<store, createdOk>>
    /\ UNCHANGED <<issued, removed, deletedOk, listedIds, pageVars>>

\* ---------------------------------------- pages/api/images/[...id].js

\* handleDeleteRequest up to its await.
handleDeleteRequest(r, id) ==
    Await([r EXCEPT !.id = id], "delete", handleCloudinaryDelete(<<id>>))

\* Variant: only the first path component is used.
ReassembledIdFirstComponent(q) ==
    IF q.kind = "array" THEN q.arr[1] ELSE q.str

\* Variant: the components are joined with "-".
ReassembledIdDash(q) ==
    IF q.kind = "array" THEN Join(q.arr, "-") ELSE q.str

\* The identifier the handler works with: an array is joined with "/".
ReassembledId(q) == IF q.kind = "array" THEN Join(q.arr, "/") ELSE q.str

\* Variant: the caught error sent without the message field.
IdCatchNoMessage(r) ==
    Respond(r, 400, [error |-> r.thrown])

\* The catch block of the DELETE case of [...id].js.
IdCatch(r) ==
    Respond(r, 400, [message |-> "Error", error |-> r.thrown])

\* Variant: the handler without its switch on req.method.
IdHandlerAnyMethod(r) ==
    IF Falsy(r.query)
    THEN Respond(r, 400, [error |-> "Missing id"])
    ELSE handleDeleteRequest(r, ReassembledId(r.query))

\* res.status(200).json({message: "Success", result}) of the DELETE case.
IdDeleteOk(r, result) ==
    Respond(r, 200, [message |-> "Success", result |-> result])

\* handler of [...id].js.
IdHandler(r) ==
    IF Falsy(r.query)
    THEN Respond(r, 400, [error |-> "Missing id"])
    ELSE CASE r.method = "DELETE" ->
                handleDeleteRequest(r, ReassembledId(r.query))
           [] OTHER ->
                Respond([r EXCEPT !.id = ReassembledId(r.query)], 405,
                        [message |-> "Method not allowed"])

\* Identifiers a request can name: those of resources that have existed.
KnownIds == InitialIds \cup createdOk

\* Values of req.query.id that name the identifier i (the empty i: none):
\* the array of its path components, or the string itself.
QueryIds(i) ==
    IF i = <<>> THEN {Absent, StringId(<<>>)}
    ELSE {ArrayId(Split(i, "/"))}
         \cup (IF i \in InitialIds THEN {StringId(i)} ELSE {})

\* The handler of [...id].js is invoked with some method and some query.
IdRequest(s) ==
    /\ Free(s)
    /\ issued < MaxRequests
    /\ \E method \in Methods, i \in KnownIds \cup {<<>>} :
       \E q \in QueryIds(i) :
          req' = [req EXCEPT ![s] =
                    IdHandler([Idle EXCEPT !.route = "id",
                                           !.method = method,
                                           !.query = q,
                                           !.target = i])]
    /\ issued' = issued + 1
    /\ UNCHANGED <<store, createdOk, removed, deletedOk, listedIds, pageVars>>

\* The store answers the delete call: the resources are removed and the
\* handler sends 200, or the call throws and the handler sends 400.
DeleteReturns(s) ==
    /\ req[s].pc = "delete"
    /\ \/ LET ids == Last(req[s].calls).ids
          IN  /\ store' = ApiDeleteResources(store, ids)
              /\ req' = [req EXCEPT ![s] =
                    IdDeleteOk(@, [deleted |-> ids])]
              /\ removed' = removed \cup Range(ids)
              /\ deletedOk' = deletedOk \cup ({req[s].target} \cap listedIds)
       \/ /\ req' = [req EXCEPT ![s] =
                    IdCatch(Throw(@, "RemoteUnavailable"))]
          /\ UNCHANGED <<store, removed, deletedOk>>
    /\ UNCHANGED <<issued, createdOk, listedIds, pageVars>>

\* ------------------------------------------------- pages/images.jsx

ApiImages == <<"/", "api", "/", "images">>

\* The URL handleDelete fetches: `/api/images/${id}`.
DeleteUrl(id) == ApiImages \o <<"/">> \o id

\* Next.js file-system routing of the two API files: /api/images is served
\* by index.js, /api/images/<one or more components> by the catch-all
\* [...id].js with the components as req.query.id.
Route(path) ==
    IF path = ApiImages
    THEN [route |-> "index", query |-> Absent]
    ELSE IF IsPrefix(ApiImages \o <<"/">>, path)
            /\ Len(path) > Len(ApiImages) + 1
    THEN [route |-> "id",
          query |-> ArrayId(Split(SubSeq(path, Len(ApiImages) + 2, Len(path)),
                                  "/"))]
    ELSE [route |-> "none", query |-> Absent]

\* handleDelete(id) of the Images page: DELETE /api/images/<id> for an image
\* the page shows, that is, one a list returned.
PageDelete(s) ==
    /\ Free(s)
    /\ issued < MaxRequests
    /\ \E id \in listedIds :
          LET to == Route(DeleteUrl(id))
              r == [Idle EXCEPT !.route = to.route, !.method = "DELETE",
                                !.query = to.query, !.fromPage = TRUE,
                                !.target = id]
          IN  req' = [req EXCEPT ![s] =
                        CASE to.route = "id" -> IdHandler(r)
                          [] to.route = "index" -> IndexHandler(r)
                          [] OTHER -> Respond(r, 404, [message |-> "Not found"])]
    /\ issued' = issued + 1
    /\ UNCHANGED <<store, createdOk, removed, deletedOk, listedIds, pageVars>>

\* ------------------------------------------------------ specification

\* Nothing has been requested and no page is open.
NothingYet ==
    /\ req = [s \in Slots |-> Idle]
    /\ issued = 0
    /\ createdOk = {}
    /\ removed = {}
    /\ deletedOk = {}
    /\ listedIds = {}
    /\ ui = [mounted |-> FALSE, loading |-> FALSE, images |-> {},
             submitting |-> FALSE, pushed |-> 0, downloads |-> 0]
    /\ run = [s \in Slots |-> NoRun]
    /\ failures = 0

Init ==
    /\ store \in SUBSET InitialIds
    /\ NothingYet

Next ==
    \E s \in Slots :
        \/ IndexRequest(s)
        \/ IdRequest(s)
        \/ PageDelete(s)
        \/ ListReturns(s)
        \/ RenderReturns(s)
        \/ UploadReturns(s)
        \/ DeleteReturns(s)

Spec == Init /\ [][Next]_vars

\* --------------------------------------------- the pages in the browser
\*
\* pages/index.jsx (Home) and pages/images.jsx (Images) in one browser tab:
\* the tab shows Home first and Images, once opened, to the end.
\* A page function runs without interruption from one await to the next, so
\* each action is the code between two awaits; the awaits that follow a
\* response (response.json(), response.blob()) are taken with it.

\* Fetches the pages start in one behaviour.
MaxFetches == 5

\* Resources the store may hold when the pages are opened: two in the
\* application's folder and one in another folder.
PageInitialIds ==
    { <<"text-to-handwriting", "/", "a">>,
      <<"text-to-handwriting", "/", "s", "/", "a">>,
      <<"o", "/", "a">> }

\* What the Home form sends: the colours are the options of its select.
FormBodies == [text : {<<"hi">>}, color : {"black"}, ruled : BOOLEAN]

setLoading(u, v) == [u EXCEPT !.loading = v]
setImages(u, v) == [u EXCEPT !.images = v]
setSubmitting(u, v) == [u EXCEPT !.submitting = v]
routerPush(u) == [u EXCEPT !.pushed = @ + 1]

\* response.ok
Ok(response) == response.status \in 200..299

\* What an awaited fetch gives: it throws, or it resolves to the response.
Outcomes(s) ==
    {[threw |-> TRUE, response |-> [status |-> 0, body |-> [error |-> "fetch"]]],
     [threw |-> FALSE, response |-> req[s].resp[1]]}

Succeeded(o) == ~o.threw /\ Ok(o.response)

\* The slot a fetch started by the continuation of slot s goes to.
SlotAfter(s) ==
    CHOOSE u \in Slots :
        /\ u = s \/ Vacant(u)
        /\ \A v \in Slots : v < u => ~(v = s \/ Vacant(v))

\* GET /api/images as the server takes it.
GetImagesRequest ==
    IndexHandler([Idle EXCEPT !.route = "index", !.method = "GET",
                              !.seenCreated = createdOk,
                              !.seenDeleted = deletedOk])

\* DELETE `/api/images/${id}` as the server takes it.
DeleteRequest(id) ==
    LET to == Route(DeleteUrl(id))
        r == [Idle EXCEPT !.route = to.route, !.method = "DELETE",
                          !.query = to.query, !.fromPage = TRUE, !.target = id]
    IN  CASE to.route = "id" -> IdHandler(r)
          [] to.route = "index" -> IndexHandler(r)
          [] OTHER -> Respond(r, 404, [message |-> "Not found"])

\* fetch(url, {}) of an image's secure_url: served by the store's CDN.
DownloadRequest(id) ==
    [Idle EXCEPT !.route = "cdn", !.method = "GET", !.pc = "cdn", !.target = id]

\* getImages up to its await: setLoading(true) and the fetch.
getImagesCall(u) == setLoading(u, TRUE)

\* Variant: getImages without its finally block.
getImagesSettleNoFinally(u, o) ==
    IF Succeeded(o)
    THEN setLoading(setImages(u, o.response.body.result.resources), FALSE)
    ELSE u

\* getImages after its await: the images are set when the response is ok;
\* finally setLoading(false).
getImagesSettle(u, o) ==
    setLoading(IF Succeeded(o)
               THEN setImages(u, o.response.body.result.resources)
               ELSE u,
               FALSE)

\* Variant: getImages() is called whatever the response.
handleDeleteRefetchesAlways(o) == TRUE

\* Whether handleDelete goes on to call getImages(): not when it threw data.
handleDeleteRefetches(o) == Succeeded(o)

\* handleDelete after its await: getImages() is called, not awaited, when the
\* response is ok; finally setLoading(false).
handleDeleteSettle(u, o) ==
    setLoading(IF handleDeleteRefetches(o) THEN getImagesCall(u) ELSE u, FALSE)

\* handleDownloadResource after its await: the blob is saved when the
\* response is ok; finally setLoading(false).
handleDownloadResourceSettle(u, o) ==
    setLoading(IF Succeeded(o) THEN [u EXCEPT !.downloads = @ + 1] ELSE u,
               FALSE)

\* Variant: router.push is called before the response is looked at.
handleFormSubmitSettlePushFirst(u, o) ==
    setSubmitting(IF o.threw THEN u ELSE routerPush(u), FALSE)

\* handleFormSubmit after its await: router.push("/images") when the
\* response is ok; finally setSubmitting(false).
handleFormSubmitSettle(u, o) ==
    setSubmitting(IF Succeeded(o) THEN routerPush(u) ELSE u, FALSE)

\* A page function starts a fetch in slot s.
StartFetch(s, request, fn, by) ==
    /\ req' = [req EXCEPT ![s] = request]
    /\ run' = [run EXCEPT ![s] = [fn |-> fn, by |-> by, n |-> issued + 1]]
    /\ issued' = issued + 1
    /\ UNCHANGED <<store, createdOk, removed, deletedOk, listedIds, failures>>

\* The Images page is opened: its effect calls getImages().
PageMount(s) ==
    /\ ~ui.mounted /\ ~ui.submitting
    /\ Free(s)
    /\ issued < MaxFetches
    /\ ui' = getImagesCall([ui EXCEPT !.mounted = TRUE])
    /\ StartFetch(s, GetImagesRequest, "getImages", "useEffect")

\* The Delete button of a shown image is clicked: handleDelete up to its
\* await.  The button is disabled while loading.
ClickDelete(s) ==
    /\ ui.mounted /\ ~ui.loading
    /\ Free(s)
    /\ issued + 2 <= MaxFetches
    /\ \E id \in ui.images :
          StartFetch(s, DeleteRequest(id), "handleDelete", "click")
    /\ ui' = setLoading(ui, TRUE)

\* The Download button of a shown image is clicked: handleDownloadResource
\* up to its await.
ClickDownload(s) ==
    /\ ui.mounted /\ ~ui.loading
    /\ Free(s)
    /\ issued < MaxFetches
    /\ \E id \in ui.images :
          StartFetch(s, DownloadRequest(id), "handleDownloadResource", "click")
    /\ ui' = setLoading(ui, TRUE)

\* The Home form is submitted: handleFormSubmit up to its await.  The submit
\* button is disabled while submitting.
FormSubmit(s) ==
    /\ ~ui.mounted /\ ~ui.submitting
    /\ Free(s)
    /\ issued < MaxFetches
    /\ \E body \in FormBodies :
          StartFetch(s, IndexHandler([Idle EXCEPT !.route = "index",
                                                  !.method = "POST",
                                                  !.body = body]),
                     "handleFormSubmit", "submit")
    /\ ui' = setSubmitting(ui, TRUE)

\* The CDN answers the download.
CdnReturns(s) ==
    /\ req[s].pc = "cdn"
    /\ \/ req' = [req EXCEPT ![s] = Respond(@, 200, [blob |-> "png"])]
       \/ req' = [req EXCEPT ![s] = Respond(@, 404, [message |-> "Not found"])]
    /\ UNCHANGED <<store, issued, createdOk, removed, deletedOk, listedIds,
                   pageVars>>

\* The function of slot s has run to its end without another fetch: the
\* response is dropped with it.
Settled(s) ==
    /\ run' = [run EXCEPT ![s] = NoRun]
    /\ req' = [req EXCEPT ![s] = Idle]
    /\ UNCHANGED issued

\* The fetch a page function awaits settles and the function runs to its
\* end; handleDelete may start getImages on its way.
Settle(s) ==
    /\ run[s] # NoRun
    /\ req[s].pc = "done"
    /\ \E o \in Outcomes(s) :
          /\ failures' = IF Succeeded(o) THEN failures ELSE failures + 1
          /\ CASE run[s].fn = "getImages" ->
                    /\ ui' = getImagesSettle(ui, o)
                    /\ Settled(s)
               [] run[s].fn = "handleDownloadResource" ->
                    /\ ui' = handleDownloadResourceSettle(ui, o)
                    /\ Settled(s)
               [] run[s].fn = "handleFormSubmit" ->
                    /\ ui' = handleFormSubmitSettle(ui, o)
                    /\ Settled(s)
               [] run[s].fn = "handleDelete" ->
                    /\ ui' = handleDeleteSettle(ui, o)
                    /\ IF handleDeleteRefetches(o)
                       THEN /\ req' = [req EXCEPT ![s] = Idle,
                                                   ![SlotAfter(s)] =
                                                       GetImagesRequest]
                            /\ run' = [run EXCEPT
                                  ![s] = NoRun,
                                  ![SlotAfter(s)] =
                                      [fn |-> "getImages", by |-> "handleDelete",
                                       n |-> issued + 1]]
                            /\ issued' = issued + 1
                       ELSE Settled(s)
    /\ UNCHANGED <<store, createdOk, removed, deletedOk, listedIds>>

PageInit ==
    /\ store \in SUBSET PageInitialIds
    /\ NothingYet

\* The server and the store take a step for the request of slot s.
ServerStep(s) ==
    \/ ListReturns(s)
    \/ RenderReturns(s)
    \/ UploadReturns(s)
    \/ DeleteReturns(s)
    \/ CdnReturns(s)

PageNext ==
    \E s \in Slots :
        \/ PageMount(s)
        \/ ClickDelete(s)
        \/ ClickDownload(s)
        \/ FormSubmit(s)
        \/ ListReturns(s)
        \/ RenderReturns(s)
        \/ UploadReturns(s)
        \/ DeleteReturns(s)
        \/ CdnReturns(s)
        \/ Settle(s)

PageSpec == PageInit /\ [][PageNext]_vars

\* Every request is answered and every fetch settles.
FairPageSpec ==
    PageSpec /\ WF_vars(\E s \in Slots : ServerStep(s) \/ Settle(s))

\* ------------------------------------------------------------- claims

Done(s) == req[s].pc = "done"
Status(s) == req[s].resp[1].status
Body(s) == req[s].resp[1].body
IsList(s) == req[s].route = "index" /\ req[s].method = "GET"
IsCreate(s) == req[s].route = "index" /\ req[s].method = "POST"
ListedOk(s) == IsList(s) /\ Done(s) /\ Status(s) = 200
InNamespace(id) == IsPrefix(<<"text-to-handwriting", "/">>, id)
IdMissing(s) ==
    \/ req[s].query.kind = "absent"
    \/ req[s].query.kind = "string" /\ req[s].query.str = <<>>

\* C1: a list requested after a create was answered 201, and itself answered
\* 200, contains the resource that create returned, unless a delete call
\* removed that resource before the list was taken; whatever else is stored.
UploadThenListIncludes ==
    \A s \in Slots :
        ListedOk(s) =>
            \A id \in req[s].seenCreated \ removed :
                id \in Body(s).result.resources

\* C1 witness: a list answered 200 that holds a resource created before it
\* was requested, next to another resource of the store.
UploadThenListWitness ==
    \E s \in Slots :
        /\ ListedOk(s)
        /\ \E id \in req[s].seenCreated \ removed :
              /\ id \in Body(s).result.resources
              /\ Body(s).result.resources # {id}

\* C2: a list requested after a resource that had been listed was deleted
\* with a 200, and itself answered 200, does not contain that resource.
DeleteThenListExcludes ==
    \A s \in Slots :
        ListedOk(s) =>
            \A id \in req[s].seenDeleted :
                id \notin Body(s).result.resources

\* C2 witness: a list answered 200 after a listed resource was deleted.
DeleteThenListWitness ==
    \E s \in Slots :
        /\ ListedOk(s)
        /\ \E id \in req[s].seenDeleted :
              /\ id \in listedIds
              /\ id \notin Body(s).result.resources

\* C3: a POST whose colour is outside COLORS never has the renderer or the
\* store called for it, and its answer is an error.
InvalidColorRejectedBeforeRendering ==
    \A s \in Slots :
        (IsCreate(s) /\ req[s].body.color \notin COLORS) =>
            /\ req[s].calls = <<>>
            /\ Done(s) => Status(s) >= 400

\* C4: a request that reaches the handler of [...id].js with an absent or
\* empty id is answered 400 and no remote call is made for it.
MissingIdYields400 ==
    \A s \in Slots :
        (req[s].route = "id" /\ IdMissing(s)) =>
            /\ Done(s)
            /\ Len(req[s].resp) = 1
            /\ Status(s) = 400
            /\ req[s].calls = <<>>

\* C4 witness: a DELETE with an empty id was answered 400.
MissingIdWitness ==
    \E s \in Slots :
        /\ req[s].route = "id"
        /\ req[s].method = "DELETE"
        /\ req[s].query = StringId(<<>>)
        /\ Done(s)
        /\ Status(s) = 400

\* C5: a request to /api/images whose method is neither GET nor POST, and a
\* request to /api/images/:id (with an id) whose method is not DELETE, is
\* answered 405, and neither the renderer nor the store is called for it.
UnsupportedMethodYields405 ==
    \A s \in Slots :
        (\/ req[s].route = "index" /\ req[s].method \notin {"GET", "POST"}
         \/ /\ req[s].route = "id"
            /\ ~IdMissing(s)
            /\ req[s].method # "DELETE") =>
            /\ Done(s)
            /\ Len(req[s].resp) = 1
            /\ Status(s) = 405
            /\ req[s].calls = <<>>

\* C5 witness: a GET for an identifier of several path components was
\* answered 405.
UnsupportedMethodWitness ==
    \E s \in Slots :
        /\ req[s].route = "id"
        /\ req[s].method = "GET"
        /\ req[s].query.kind = "array"
        /\ Len(req[s].query.arr) > 1
        /\ Done(s)
        /\ Status(s) = 405

\* C6: a request whose renderer or store call threw is answered, once, with
\* status 400 and the thrown error as payload; every request that is done
\* has exactly one response and no other has any.
FailuresCaughtAs400 ==
    \A s \in Slots :
        /\ Len(req[s].resp) = (IF Done(s) THEN 1 ELSE 0)
        /\ req[s].thrown # "none" =>
              /\ Done(s)
              /\ Status(s) = 400
              /\ "error" \in DOMAIN Body(s)
              /\ Body(s).error = req[s].thrown

\* C6 witness: the renderer threw in one request and the store in another,
\* and both were answered.
FailuresCaughtWitness ==
    \E s, u \in Slots :
        /\ req[s].thrown = "RenderError" /\ Done(s)
        /\ req[u].thrown = "RemoteUnavailable" /\ Done(u)
        /\ req[u].route = "id"

\* C7 as stated: every response whose status is not 2xx has a body with
\* message "Error" and an error field.
ErrorBodiesAreUniform ==
    \A s \in Slots :
        (Done(s) /\ Status(s) \notin 200..299) =>
            /\ DOMAIN Body(s) = {"message", "error"}
            /\ Body(s).message = "Error"

\* C7 as amended: a 400 sent for a caught failure has the body
\* {message: "Error", error}; the 400 sent for a missing id has the body
\* {error: "Missing id"} and the 405 the body {message: "Method not allowed"}.
ErrorBodiesByCause ==
    \A s \in Slots :
        (Done(s) /\ req[s].route \in {"index", "id"}
                 /\ Status(s) \notin 200..299) =>
            IF req[s].thrown # "none"
            THEN /\ Status(s) = 400
                 /\ Body(s) = [message |-> "Error", error |-> req[s].thrown]
            ELSE IF Status(s) = 400
            THEN /\ req[s].route = "id"
                 /\ IdMissing(s)
                 /\ Body(s) = [error |-> "Missing id"]
            ELSE /\ Status(s) = 405
                 /\ Body(s) = [message |-> "Method not allowed"]

\* C7 witness: a failed delete answered 400 while a 405 stands in the other
\* slot.
ErrorBodiesWitness ==
    \E s, u \in Slots :
        /\ Done(s) /\ req[s].route = "id" /\ req[s].thrown # "none"
        /\ Done(u) /\ Status(u) = 405

\* C8 (step): when the store answers the list call of a GET, the handler
\* sends 200 with exactly the stored resources under "text-to-handwriting/"
\* if the call succeeded, and 400 if it threw.
ListStep ==
    \A s \in Slots :
        (req[s].pc = "list" /\ req'[s].pc = "done") =>
            IF req'[s].thrown = "none"
            THEN /\ req'[s].resp[1].status = 200
                 /\ req'[s].resp[1].body.result.resources
                        = {r \in store : InNamespace(r)}
            ELSE req'[s].resp[1].status = 400

\* C8: a successful list returns every resource under the namespace and no
\* other, and a list fails with 400 exactly when the store call threw.
ListReturnsNamespace ==
    /\ [][ListStep]_vars
    /\ [](\A s \in Slots :
            (IsList(s) /\ Done(s)) =>
                /\ Status(s) \in {200, 400}
                /\ (Status(s) = 400) <=> (req[s].thrown # "none"))

\* C8 witness: a list answered 200 with a resource, while the store holds a
\* resource outside the namespace that the list left out.
ListReturnsNamespaceWitness ==
    \E s \in Slots :
        /\ ListedOk(s)
        /\ Body(s).result.resources # {}
        /\ \E r \in store :
              ~InNamespace(r) /\ r \notin Body(s).result.resources

\* C9: the DELETE the Images page sends for an identifier reaches the
\* handler of [...id].js as the array of its path components, the handler
\* joins them into the original identifier and passes that one identifier
\* to the delete call.
IdentifierRoundTrip ==
    \A s \in Slots :
        req[s].fromPage =>
            /\ req[s].route = "id"
            /\ req[s].query.kind = "array"
            /\ req[s].query.arr = Split(req[s].target, "/")
            /\ req[s].id = req[s].target
            /\ req[s].calls = <<[op |-> "delete", ids |-> <<req[s].target>>]>>

\* C9 witness: the page's DELETE of an identifier of three path components
\* was answered 200.
IdentifierRoundTripWitness ==
    \E s \in Slots :
        /\ req[s].fromPage
        /\ Len(req[s].query.arr) = 3
        /\ Done(s)
        /\ Status(s) = 200

CallOps(s) == [i \in DOMAIN req[s].calls |-> req[s].calls[i].op]

\* C10 (state): a POST calls the renderer first and once; it calls the
\* upload at most once, second, and never when the renderer threw; after a
\* failure nothing is called again.
RenderThenUploadOnce ==
    \A s \in Slots :
        IsCreate(s) =>
            /\ CallOps(s) \in {<<"render">>, <<"render", "upload">>}
            /\ req[s].pc = "render" => CallOps(s) = <<"render">>
            /\ req[s].pc = "upload" =>
                  CallOps(s) = <<"render", "upload">> /\ req[s].thrown = "none"
            /\ req[s].thrown = "RenderError" => CallOps(s) = <<"render">>
            /\ (Done(s) /\ Status(s) = 201) =>
                  CallOps(s) = <<"render", "upload">>

\* C10 (step): a step of a POST changes the store only when it is the step
\* in which its upload succeeds: a failing renderer or a failing upload
\* leaves the store as it was.
CreateStep ==
    \A s \in Slots :
        (IsCreate(s) /\ req[s].pc \in {"render", "upload"}
                     /\ req'[s] # req[s] /\ store' # store) =>
            /\ req[s].pc = "upload"
            /\ req'[s].thrown = "none"
            /\ req'[s].resp[1].status = 201

\* C10: a create renders first and uploads second, with no retries.
CreateRendersThenUploads ==
    /\ []RenderThenUploadOnce
    /\ [][CreateStep]_vars

\* C10 witness: one create failed in its upload after rendering, another
\* failed in the renderer.
CreateRendersThenUploadsWitness ==
    \E s, u \in Slots :
        /\ IsCreate(s) /\ Done(s) /\ req[s].thrown = "RemoteUnavailable"
        /\ Len(req[s].calls) = 2
        /\ IsCreate(u) /\ Done(u) /\ req[u].thrown = "RenderError"
        /\ Len(req[u].calls) = 1

StoreCalls(s) ==
    {i \in DOMAIN req[s].calls : req[s].calls[i].op \in {"list", "upload", "delete"}}
Moved(s) == req'[s] # req[s]
Answer(s) == req'[s].resp[1]

\* C11 (step): a step of one request leaves every other request as it is; the
\* step in which the store serves its call takes the store as the calls
\* before it left it and gives what the request gives when run alone on that
\* store; every other step leaves the store alone.
NoCoordinationStep ==
    /\ store' # store => \E s \in Slots : Moved(s)
    /\ \A s \in Slots :
          Moved(s) =>
            /\ \A u \in Slots \ {s} : ~Moved(u)
            /\ IF req'[s].thrown # "none" THEN store' = store
               ELSE CASE req[s].pc = "list" ->
                           /\ store' = store
                           /\ Answer(s).status = 200
                           /\ Answer(s).body.result =
                                 [resources |-> {r \in store : InNamespace(r)}]
                      [] req[s].pc = "upload" ->
                           \E id \in store' \ store :
                              /\ InNamespace(id)
                              /\ store' = store \cup {id}
                              /\ Answer(s).status = 201
                              /\ Answer(s).body.result = [public_id |-> id]
                      [] req[s].pc = "delete" ->
                           /\ store' = store \ {req[s].target}
                           /\ Answer(s).status = 200
                           /\ Answer(s).body.result =
                                 [deleted |-> <<req[s].target>>]
                      [] OTHER -> store' = store

\* C11: requests served concurrently need no coordination: each makes at most
\* one store call, and in any interleaving the store and the responses are
\* those of the requests run one after the other in the order of their
\* store calls.
RequestsNeedNoCoordination ==
    /\ [](\A s \in Slots : Cardinality(StoreCalls(s)) <= 1)
    /\ [][NoCoordinationStep]_vars

\* C11 witness: a list that arrived while a create was being served, and was
\* served after the create's upload, holds the created resource.
NoCoordinationWitness ==
    \E s, u \in Slots :
        /\ IsCreate(s) /\ Done(s) /\ Status(s) = 201
        /\ ListedOk(u)
        /\ Body(s).result.public_id \in Body(u).result.resources
        /\ Body(s).result.public_id \notin req[u].seenCreated

\* C13: a list, a create and a delete whose calls all succeeded are answered
\* 200, 201 and 200 with the body {message: "Success", result}, result being
\* the store's answer; a request whose renderer or store call threw is never
\* answered 200 or 201.
SuccessCarriesResult ==
    \A s \in Slots :
        (Done(s) /\ req[s].route \in {"index", "id"}) =>
            /\ req[s].thrown # "none" => Status(s) \notin {200, 201}
            /\ Status(s) \in {200, 201} => StoreCalls(s) # {}
            /\ (req[s].thrown = "none" /\ StoreCalls(s) # {}) =>
                  /\ DOMAIN Body(s) = {"message", "result"}
                  /\ Body(s).message = "Success"
                  /\ CASE IsList(s) ->
                            /\ Status(s) = 200
                            /\ DOMAIN Body(s).result = {"resources"}
                            /\ Body(s).result.resources \subseteq listedIds
                       [] IsCreate(s) ->
                            /\ Status(s) = 201
                            /\ DOMAIN Body(s).result = {"public_id"}
                            /\ Body(s).result.public_id \in createdOk
                       [] OTHER ->
                            /\ req[s].method = "DELETE"
                            /\ Status(s) = 200
                            /\ Body(s).result = [deleted |-> <<req[s].target>>]

\* C13 witness: a create answered 201 and a delete answered 200.
SuccessCarriesResultWitness ==
    \E s, u \in Slots :
        /\ IsCreate(s) /\ Done(s) /\ Status(s) = 201
        /\ req[u].route = "id" /\ Done(u) /\ Status(u) = 200

\* C14: every upload is made with the folder "text-to-handwriting/", the
\* prefix every list call queries, and every resource a create returned has
\* an identifier under it.
CreatedUnderNamespace ==
    /\ \A id \in createdOk : InNamespace(id)
    /\ \A s \in Slots : \A i \in DOMAIN req[s].calls :
          /\ req[s].calls[i].op = "upload" =>
                req[s].calls[i].folder = <<"text-to-handwriting", "/">>
          /\ req[s].calls[i].op = "list" =>
                req[s].calls[i].prefix = <<"text-to-handwriting", "/">>

\* C14 witness: a created resource is in the store.
CreatedUnderNamespaceWitness ==
    \E id \in createdOk : id \in store /\ Len(id) = 3

\* C15 (step): the step in which a delete succeeds removes at most the
\* resource its request names; a step of a list, of a request answered 405
\* or 400, and of any request whose call threw leaves the store unchanged.
FrameStep ==
    \A s \in Slots :
        Moved(s) =>
            IF req'[s].thrown = "none" /\ req[s].pc = "delete"
            THEN /\ store' \subseteq store
                 /\ store \ store' \subseteq {req[s].target}
            ELSE IF req'[s].thrown = "none" /\ req[s].pc = "upload"
            THEN store \subseteq store'
            ELSE store' = store

\* C15: the frame of the store operations.
StoreFrame == [][FrameStep]_vars

\* C15 witness: a delete answered 200 removed its resource and the store
\* still holds another one.
StoreFrameWitness ==
    \E s \in Slots :
        /\ req[s].route = "id" /\ Done(s) /\ Status(s) = 200
        /\ req[s].target \in removed
        /\ req[s].target \notin store
        /\ store # {}

\* ------------------------------------------------ claims about the pages

ImagesFns == {"getImages", "handleDelete", "handleDownloadResource"}
Starts(s) == run'[s] # NoRun /\ run'[s] # run[s]
Ends(s) == run[s] # NoRun /\ run'[s] # run[s]
Response(s) == req[s].resp[1]
InFlight(s) == run[s] # NoRun
AtRest == \A s \in Slots : run[s] = NoRun /\ req[s].pc = "idle"

\* C12 (step): a submission of the Home form sends one POST /api/images and
\* nothing else; when its fetch settles the page navigates to /images if the
\* response is ok, and does not navigate if the response is not ok or the
\* fetch threw; nothing else navigates.
SubmitStep ==
    /\ \A s \in Slots :
          /\ (Starts(s) /\ run'[s].fn = "handleFormSubmit") =>
                /\ issued' = issued + 1
                /\ req'[s].route = "index" /\ req'[s].method = "POST"
                /\ \A t \in Slots \ {s} : req'[t] = req[t] /\ run'[t] = run[t]
                /\ ui'.pushed = ui.pushed
          /\ (Ends(s) /\ run[s].fn = "handleFormSubmit") =>
                /\ issued' = issued
                /\ ~Ok(Response(s)) => ui'.pushed = ui.pushed
                /\ failures' # failures => ui'.pushed = ui.pushed
                /\ failures' = failures =>
                      Ok(Response(s)) /\ ui'.pushed = ui.pushed + 1
    /\ ui'.pushed # ui.pushed =>
          \E s \in Slots : Ends(s) /\ run[s].fn = "handleFormSubmit"

FormNavigatesIffOk == [][SubmitStep]_vars

\* A submission was answered ok and the page has navigated, and another was
\* answered not ok.
FormNavigatesWitness ==
    ui.pushed = 1 /\ failures = 1 /\ ~ui.submitting /\ ~ui.mounted /\ issued = 2

\* C16 (step): when the DELETE of handleDelete is answered ok, getImages() is
\* called, which sends GET /api/images; when it is answered not ok or the
\* fetch threw, no request is sent and the images shown stay as they are.
DeleteSettleStep ==
    \A s \in Slots :
        (Ends(s) /\ run[s].fn = "handleDelete") =>
            /\ ~Ok(Response(s)) => failures' # failures
            /\ failures' = failures =>
                  /\ Ok(Response(s))
                  /\ issued' = issued + 1
                  /\ \E t \in Slots :
                        /\ Starts(t)
                        /\ run'[t].fn = "getImages"
                        /\ req'[t].route = "index" /\ req'[t].method = "GET"
            /\ failures' # failures =>
                  /\ issued' = issued
                  /\ ui'.images = ui.images
                  /\ \A t \in Slots : ~Starts(t)

DeleteRefetchesIffOk == [][DeleteSettleStep]_vars

\* A delete was answered ok and the list it fetched again has been shown, and
\* another delete failed.
DeleteRefetchesWitness ==
    /\ failures = 1
    /\ removed # {}
    /\ AtRest
    /\ issued = 5
    /\ ui.images = {r \in store : InNamespace(r)}

\* C17: loading is true whenever a request of the Images page is in flight.
LoadingWhileInFlight ==
    (\E s \in Slots : run[s].fn \in ImagesFns) => ui.loading

\* C18: with the Images page the only client and no failure, once every
\* request has been answered the images shown are the store's resources
\* under the namespace.
ImagesMatchStoreAtRest ==
    (ui.mounted /\ AtRest /\ failures = 0 /\ createdOk = {} /\ ~ui.submitting)
        => ui.images = {r \in store : InNamespace(r)}

\* C19 (step): the step that ends a run of getImages, handleDownloadResource
\* or handleDelete leaves loading false, the step that ends a run of
\* handleFormSubmit leaves submitting false, and a list fetch that failed
\* leaves the images as they were.
RunEndStep ==
    \A s \in Slots :
        Ends(s) =>
            /\ run[s].fn \in ImagesFns => ~ui'.loading
            /\ run[s].fn = "handleFormSubmit" => ~ui'.submitting
            /\ (run[s].fn = "getImages" /\ failures' # failures) =>
                  ui'.images = ui.images

\* C19: when every request is answered or its fetch throws, the busy flags
\* come back to false.
BusyFlagsComeBack ==
    /\ [][RunEndStep]_vars
    /\ ui.loading ~> ~ui.loading
    /\ ui.submitting ~> ~ui.submitting

\* Every kind of run has ended, one of them on a failure, and both flags are
\* false again.
BusyFlagsWitness ==
    /\ AtRest
    /\ ~ui.loading /\ ~ui.submitting
    /\ failures >= 1
    /\ ui.pushed = 1 /\ ui.downloads = 1 /\ removed # {}

====
